---- MODULE Spec2Model ----
(***************************************************************************)
(* Model of the batch synchronisation pipeline of rag-bot:                 *)
(*   - batchIterate           (src/lib/iterator.ts)                        *)
(*   - syncDocuments          (src/core/application/sync/syncDocuments.ts) *)
(* with the document source, the index backend and the user notifier as    *)
(* ports whose calls either return or throw.                               *)
(*                                                                         *)
(* Spec      : runs of syncDocuments (one action per awaited call).        *)
(* SpecBatch : batchIterate driven by a consumer that collects the batches.*)
(***************************************************************************)
EXTENDS Integers, Sequences, FiniteSets, TLC

\* ------------------------------------------------------------------ bounds

\* Largest number of documents a source yields.
MaxDocs == 6
\* Largest configured batch size (config.syncBatchSize).
MaxBatchSize == 3
\* Largest entry count one addDocuments call reports.
MaxEntries == 2

\* Identifiers of the syncDocuments invocations the model can hold.
Runs == {1, 2}

\* ------------------------------------------------------------------ errors

\* Classes of thrown values: the two classes syncDocuments tests for, another
\* ApplicationError subclass, a plain Error, and a thrown value that is not
\* an Error at all.
ErrorClasses ==
  {"NotFoundError", "SystemError", "ValidationError", "Error", "NonError"}

\* A thrown value: its class, where it was raised, and its message property
\* (a thrown non-Error value has none).
MkError(cls, site) ==
  [cls |-> cls, site |-> site,
   message |-> IF cls = "NonError" THEN "undefined" ELSE site]

NoError == [cls |-> "none", site |-> "none", message |-> "none"]

\* Faulty variant: the test is made against the wrong class.
isNotFoundErrorSwapped(error) == error.cls = "SystemError"
\* error instanceof NotFoundError
isNotFoundError(error) == error.cls = "NotFoundError"

\* error instanceof SystemError
isSystemError(error) == error.cls = "SystemError"

\* error instanceof Error
isError(error) == error.cls # "NonError"

\* The { type, message } object the catch block of syncDocuments hands to
\* notifySyncError.
SyncErrorInfo(error) ==
  IF isNotFoundError(error)
  THEN [type |-> "not_found", message |-> error.message]
  ELSE IF isSystemError(error)
  THEN [type |-> "system", message |-> error.message]
  ELSE [type |-> "unknown",
        message |-> IF isError(error) THEN error.message ELSE "Unknown error"]

\* The outcomes of one awaited port call made at `site`: it returns, or it
\* throws a value of any class.
Ok == [ok |-> TRUE, err |-> NoError]
Outcomes(site) ==
  {Ok} \cup {[ok |-> FALSE, err |-> MkError(c, site)] : c \in ErrorClasses}

\* --------------------------------------------------------- document source

\* A document source yielding documents 1..n in that order; with failAt = k
\* (0 <= k <= n) it throws err when asked for the item after the k-th, with
\* failAt = -1 it never throws.
MkSource(n, failAt, err) ==
  [items |-> [i \in 1..n |-> i], failAt |-> failAt, err |-> err]

\* One step of the source's async iterator after `pos` items were yielded.
SourceNext(source, pos) ==
  IF pos = source.failAt
  THEN [kind |-> "throw", value |-> 0, err |-> source.err]
  ELSE IF pos < Len(source.items)
  THEN [kind |-> "item", value |-> source.items[pos + 1], err |-> NoError]
  ELSE [kind |-> "done", value |-> 0, err |-> NoError]

Sources ==
  {MkSource(n, -1, NoError) : n \in 0..MaxDocs}
  \cup {MkSource(n, k, MkError(c, "documentSource")) :
          n \in 0..MaxDocs, k \in 0..MaxDocs, c \in ErrorClasses}

ValidSources == {s \in Sources : s.failAt <= Len(s.items)}

\* ------------------------------------------------------------ batchIterate

\* The generator object batchIterate(iterable, size) returns, before its
\* first next(): `at` is the place the generator is suspended at.
BatchIterate(source, size) ==
  [source |-> source, size |-> size, pos |-> 0, batch |-> <<>>,
   at |-> "loop", err |-> NoError]

\* Faulty variant: batch.length > size.
BatchFullOffByOne(batch, size) == Len(batch) > size
\* batch.length >= size
BatchFull(batch, size) == Len(batch) >= size

\* One iteration of `for await (const item of iterable)`: the source is asked
\* for its next item; the item is pushed and the batch yielded when full; at
\* the end of the source the non-empty rest is yielded; an error of the
\* source leaves the generator as thrown.
\* Faulty variant: an error of the source is swallowed and the batch being
\* filled is yielded as if the source had ended.
BatchIteratePullFlush(g) ==
  LET n == SourceNext(g.source, g.pos) IN
  IF n.kind = "throw"
  THEN [g EXCEPT !.at = IF Len(g.batch) > 0 THEN "yieldTail" ELSE "threw",
                 !.err = n.err]
  ELSE IF n.kind = "item"
  THEN LET b == Append(g.batch, n.value) IN
       [g EXCEPT !.pos = @ + 1,
                 !.batch = b,
                 !.at = IF BatchFull(b, g.size) THEN "yield" ELSE "loop"]
  ELSE [g EXCEPT !.at = IF Len(g.batch) > 0 THEN "yieldTail" ELSE "done"]
BatchIteratePull(g) ==
  LET n == SourceNext(g.source, g.pos) IN
  IF n.kind = "throw"
  THEN [g EXCEPT !.at = "threw", !.err = n.err]
  ELSE IF n.kind = "item"
  THEN LET b == Append(g.batch, n.value) IN
       [g EXCEPT !.pos = @ + 1,
                 !.batch = b,
                 !.at = IF BatchFull(b, g.size) THEN "yield" ELSE "loop"]
  ELSE [g EXCEPT !.at = IF Len(g.batch) > 0 THEN "yieldTail" ELSE "done"]

\* The consumer's next() on a generator suspended at a yield: after the yield
\* in the loop the batch is reset and the loop goes on; after the last yield
\* the generator returns.
BatchIterateResume(g) ==
  IF g.at = "yield"
  THEN [g EXCEPT !.batch = <<>>, !.at = "loop"]
  ELSE [g EXCEPT !.at = "done"]

\* ------------------------------------------------------------------- state

VARIABLES
  run,      \* run[r]: the state of invocation r of syncDocuments
  index,    \* the index backend's documents, in the order they were added
  it,       \* SpecBatch: the batchIterate generator under test
  emitted,  \* SpecBatch: the batches the consumer has received, in order
  rx,       \* SpecRetry, SpecRetryAll: rx[i] is the retry loop of adapter i
  sp,       \* SpecSplit: one call of splitLongMessage
  dom,      \* SpecDomain: one call of a constructor of the domain layer
  qa        \* SpecAnswer: one invocation of answerQuestion

vars == <<run, index, it, emitted, rx, sp, dom, qa>>

\* An invocation that has not been made. `reported` sums what the returned
\* addDocuments calls of the run reported (IndexBuildResult.totalDocuments and
\* totalEntries).
Idle ==
  [pc |-> "off", size |-> 1, gen |-> BatchIterate(MkSource(0, -1, NoError), 1),
   successCount |-> 0, totalEntries |-> 0,
   reported |-> [totalDocuments |-> 0, totalEntries |-> 0],
   caught |-> NoError, thrown |-> NoError, logged |-> <<>>,
   result |-> [totalDocuments |-> -1, successCount |-> -1,
               failedCount |-> -1, totalEntries |-> -1],
   trace |-> <<>>]

\* syncDocuments(container, input) at its first statement, for a container
\* whose document source is `source` and whose config.syncBatchSize is `size`.
Started(source, size) ==
  [Idle EXCEPT !.pc = "start", !.size = size,
               !.gen = BatchIterate(source, size)]

IdleIterator == BatchIterate(MkSource(0, -1, NoError), 1)

\* What the index holds before a run: nothing, or a document (0, which no
\* source yields) left by an earlier build.
InitialIndexes == {<<>>, <<0>>}

Init ==
  /\ \E s \in ValidSources, b \in 1..MaxBatchSize :
       run = [r \in Runs |-> IF r = 1 THEN Started(s, b) ELSE Idle]
  /\ index \in InitialIndexes
  /\ it = IdleIterator
  /\ emitted = <<>>
  /\ rx = <<>>
  /\ sp = <<>>
  /\ dom = <<>>
  /\ qa = <<>>

\* ------------------------------------------------------------ syncDocuments

\* An event of a run's trace: a call the run made on a port, whether it
\* returned, and what it was given.
Event(op, ok, arg) == [op |-> op, ok |-> ok, arg |-> arg]

Log(s, op, ok, arg) == [s EXCEPT !.trace = Append(@, Event(op, ok, arg))]

\* An error thrown outside the try block leaves syncDocuments.
Propagate(s, err) == [s EXCEPT !.pc = "thrown", !.thrown = err]

\* An error thrown inside the try block enters the catch block.
\* Faulty variant: no catch block, the error leaves syncDocuments unreported.
CaughtRethrown(s, err) == [s EXCEPT !.pc = "thrown", !.thrown = err]
Caught(s, err) == [s EXCEPT !.pc = "catch", !.caught = err]

\* Line 43: await container.userNotifier.notifySyncStarting(replyToken)
\* Faulty variant: a failed start notification is ignored.
AfterStartSwallowed(s, o) == [s EXCEPT !.pc = "clear"]
AfterStart(s, o) ==
  IF o.ok THEN [s EXCEPT !.pc = "clear"] ELSE Propagate(s, o.err)

NotifySyncStarting(r) ==
  /\ run[r].pc = "start"
  /\ \E o \in Outcomes("notifySyncStarting") :
       run' = [run EXCEPT ![r] =
                 AfterStart(Log(run[r], "notifySyncStarting", o.ok, 0), o)]
  /\ UNCHANGED <<index, it, emitted, rx, sp, dom, qa>>

\* Line 49: await container.indexBuilder.clearIndex()
\* Faulty variant: the call waits until no other run is rebuilding the index.
ClearIndexSerialized(r) ==
  /\ run[r].pc = "clear"
  /\ \A q \in Runs \ {r} : run[q].pc \notin {"pull", "add", "notify"}
  /\ \E o \in Outcomes("clearIndex") :
       LET s == Log(run[r], "clearIndex", o.ok, 0) IN
       /\ run' = [run EXCEPT ![r] =
                    IF o.ok THEN [s EXCEPT !.pc = "pull"] ELSE Caught(s, o.err)]
       /\ index' = IF o.ok THEN <<>> ELSE index
  /\ UNCHANGED <<it, emitted, rx, sp, dom, qa>>
\* Faulty variant: the index is not cleared, the run goes on to the batches.
ClearIndexSkipped(r) ==
  /\ run[r].pc = "clear"
  /\ run' = [run EXCEPT ![r].pc = "pull"]
  /\ UNCHANGED <<index, it, emitted, rx, sp, dom, qa>>
ClearIndex(r) ==
  /\ run[r].pc = "clear"
  /\ \E o \in Outcomes("clearIndex") :
       LET s == Log(run[r], "clearIndex", o.ok, 0) IN
       /\ run' = [run EXCEPT ![r] =
                    IF o.ok THEN [s EXCEPT !.pc = "pull"] ELSE Caught(s, o.err)]
       /\ index' = IF o.ok THEN <<>> ELSE index
  /\ UNCHANGED <<it, emitted, rx, sp, dom, qa>>

\* Where the for-await loop of syncDocuments goes once the generator has
\* answered next(): into the loop body with a batch, past the loop, or into
\* the catch block with the source's error.
AfterNext(s, g) ==
  LET t == [s EXCEPT !.gen = g] IN
  IF g.at = "threw" THEN Caught(t, g.err)
  ELSE IF g.at = "done" THEN [t EXCEPT !.pc = "notify"]
  ELSE IF g.at \in {"yield", "yieldTail"} THEN [t EXCEPT !.pc = "add"]
  ELSE [t EXCEPT !.pc = "pull"]

\* Lines 56-59 with iterator.ts 12-21: the loop awaits the generator, which
\* awaits the next document of the source.
PullDocument(r) ==
  /\ run[r].pc = "pull"
  /\ LET g == BatchIteratePull(run[r].gen)
         n == SourceNext(run[r].gen.source, run[r].gen.pos) IN
     run' = [run EXCEPT ![r] =
               AfterNext(Log(run[r], "sourceNext", n.kind # "throw", n.value), g)]
  /\ UNCHANGED <<index, it, emitted, rx, sp, dom, qa>>

\* Lines 60-71, the loop body: successCount is advanced before addDocuments
\* is awaited; a returned call adds its totalEntries and the loop asks the
\* generator for the next batch; a thrown one enters the catch block.
\* Faulty variant: a failed addDocuments call is ignored and the loop goes on.
AfterAddSwallowed(s, o, entries) ==
  LET g == BatchIterateResume(s.gen) IN
  [s EXCEPT !.gen = g, !.pc = IF g.at = "done" THEN "notify" ELSE "pull"]
\* Faulty variant: totalEntries keeps the last batch's count only.
AfterAddLastOnly(s, o, entries) ==
  IF o.ok
  THEN LET g == BatchIterateResume(s.gen) IN
       [s EXCEPT !.totalEntries = entries,
                 !.gen = g,
                 !.pc = IF g.at = "done" THEN "notify" ELSE "pull"]
  ELSE Caught(s, o.err)
AfterAdd(s, o, entries) ==
  IF o.ok
  THEN LET g == BatchIterateResume(s.gen) IN
       [s EXCEPT !.totalEntries = @ + entries,
                 !.gen = g,
                 !.pc = IF g.at = "done" THEN "notify" ELSE "pull"]
  ELSE Caught(s, o.err)

\* The totalDocuments an addDocuments call may report for a batch:
\* documents.length (llamaIndexGemini/indexBuilder.ts 276) or 0
\* (empty/indexBuilder.ts 11).
ReportedDocuments(batch) == {Len(batch), 0}

Reported(sum, documents, entries) ==
  [totalDocuments |-> sum.totalDocuments + documents,
   totalEntries |-> sum.totalEntries + entries]

\* Faulty variant: successCount and totalEntries are shared by all runs.
AddDocumentsShared(r) ==
  /\ run[r].pc = "add"
  /\ \E o \in Outcomes("addDocuments"), entries \in 0..MaxEntries,
        documents \in ReportedDocuments(run[r].gen.batch) :
       LET batch == run[r].gen.batch
           s == [Log(run[r], "addDocuments", o.ok, batch)
                   EXCEPT !.successCount = @ + Len(batch),
                          !.reported = IF o.ok
                                       THEN Reported(@, documents, entries)
                                       ELSE @] IN
       /\ o.ok \/ (entries = 0 /\ documents = Len(batch))
       /\ run' = [q \in Runs |->
                    IF q = r THEN AfterAdd(s, o, entries)
                    ELSE [run[q] EXCEPT !.successCount = @ + Len(batch),
                                        !.totalEntries = @ + entries]]
       /\ index' = IF o.ok THEN index \o batch ELSE index
  /\ UNCHANGED <<it, emitted, rx, sp, dom, qa>>
AddDocuments(r) ==
  /\ run[r].pc = "add"
  /\ \E o \in Outcomes("addDocuments"), entries \in 0..MaxEntries,
        documents \in ReportedDocuments(run[r].gen.batch) :
       LET batch == run[r].gen.batch
           s == [Log(run[r], "addDocuments", o.ok, batch)
                   EXCEPT !.successCount = @ + Len(batch),
                          !.reported = IF o.ok
                                       THEN Reported(@, documents, entries)
                                       ELSE @] IN
       /\ o.ok \/ (entries = 0 /\ documents = Len(batch))
       /\ run' = [run EXCEPT ![r] = AfterAdd(s, o, entries)]
       /\ index' = IF o.ok THEN index \o batch ELSE index
  /\ UNCHANGED <<it, emitted, rx, sp, dom, qa>>

\* Lines 78-84: the counts returned by a run that saw no document.
ZeroResult ==
  [totalDocuments |-> 0, successCount |-> 0, failedCount |-> 0,
   totalEntries |-> 0]

\* Line 75: if (successCount === 0)
\* Faulty variant: the empty case is not told apart.
NoDocumentsNever(s) == FALSE
NoDocuments(s) == s.successCount = 0

\* The await of a terminal notification inside the try block: when it returns
\* syncDocuments returns `result`, when it throws the catch block is entered.
\* Faulty variant: a failed terminal notification restarts the rebuild.
AfterTerminalRetry(s, o, result) ==
  IF o.ok THEN [s EXCEPT !.pc = "returned", !.result = result]
  ELSE [s EXCEPT !.pc = "clear"]
AfterTerminal(s, o, result) ==
  IF o.ok THEN [s EXCEPT !.pc = "returned", !.result = result]
  ELSE Caught(s, o.err)

\* Lines 75-85: no document was observed.
NotifyNoDocumentsFound(r) ==
  /\ run[r].pc = "notify"
  /\ NoDocuments(run[r])
  /\ \E o \in Outcomes("notifyNoDocumentsFound") :
       run' = [run EXCEPT ![r] =
                 AfterTerminal(Log(run[r], "notifyNoDocumentsFound", o.ok, 0),
                               o, ZeroResult)]
  /\ UNCHANGED <<index, it, emitted, rx, sp, dom, qa>>

\* Lines 87-92: the SyncResult of a run with documents.
SyncResultOf(successCount) ==
  [totalCount |-> successCount, successCount |-> successCount,
   failedCount |-> 0, failedIds |-> <<>>]

\* Lines 94-112: the completion notification and the returned counts.
NotifySyncCompleted(r) ==
  /\ run[r].pc = "notify"
  /\ ~NoDocuments(run[r])
  /\ \E o \in Outcomes("notifySyncCompleted") :
       LET syncResult == SyncResultOf(run[r].successCount)
           buildResult == [totalEntries |-> run[r].totalEntries]
           s == Log(run[r], "notifySyncCompleted", o.ok,
                    [syncResult |-> syncResult, buildResult |-> buildResult]) IN
       run' = [run EXCEPT ![r] =
                 AfterTerminal(s, o,
                   [totalDocuments |-> syncResult.totalCount,
                    successCount |-> syncResult.successCount,
                    failedCount |-> syncResult.failedCount,
                    totalEntries |-> buildResult.totalEntries])]
  /\ UNCHANGED <<index, it, emitted, rx, sp, dom, qa>>

\* Lines 113-147, the catch block: the caught error is logged, classified and
\* reported with one notifySyncError call, which is awaited with no handler
\* of its own: when it returns, `throw error` re-raises the caught error;
\* when it throws, its error is what leaves syncDocuments.
NotifySyncError(r) ==
  /\ run[r].pc = "catch"
  /\ \E o \in Outcomes("notifySyncError") :
       LET error == run[r].caught
           s == Log([run[r] EXCEPT !.logged = Append(@, error)],
                    "notifySyncError", o.ok, SyncErrorInfo(error)) IN
       run' = [run EXCEPT ![r] =
                 Propagate(s, IF o.ok THEN error ELSE o.err)]
  /\ UNCHANGED <<index, it, emitted, rx, sp, dom, qa>>

Step(r) ==
  \/ NotifySyncStarting(r)
  \/ ClearIndex(r)
  \/ PullDocument(r)
  \/ AddDocuments(r)
  \/ NotifyNoDocumentsFound(r)
  \/ NotifySyncCompleted(r)
  \/ NotifySyncError(r)

Next == \E r \in Runs : Step(r)

Spec == Init /\ [][Next]_vars

\* ------------------------------------------------- batchIterate on its own

InitBatch ==
  /\ run = [r \in Runs |-> Idle]
  /\ index = <<>>
  /\ \E s \in ValidSources, b \in 1..MaxBatchSize : it = BatchIterate(s, b)
  /\ emitted = <<>>
  /\ rx = <<>>
  /\ sp = <<>>
  /\ dom = <<>>
  /\ qa = <<>>

\* The generator asks the source for the next item.
IterPull ==
  /\ it.at = "loop"
  /\ it' = BatchIteratePull(it)
  /\ UNCHANGED <<run, index, emitted, rx, sp, dom, qa>>

\* The consumer receives the yielded batch and calls next() again.
IterConsume ==
  /\ it.at \in {"yield", "yieldTail"}
  /\ emitted' = Append(emitted, it.batch)
  /\ it' = BatchIterateResume(it)
  /\ UNCHANGED <<run, index, rx, sp, dom, qa>>

NextBatch == IterPull \/ IterConsume

SpecBatch == InitBatch /\ [][NextBatch]_vars

\* ----------------------------------------------------- helpers for claims

RECURSIVE Concat(_)
Concat(batches) ==
  IF batches = <<>> THEN <<>> ELSE Head(batches) \o Concat(Tail(batches))

\* The positions of a trace whose call is one of `ops`.
At(trace, ops) == {i \in DOMAIN trace : trace[i].op \in ops}

\* The subsequence of a trace made of the calls named `op`.
Calls(trace, op) == SelectSeq(trace, LAMBDA e : e.op = op)

TerminalOps ==
  {"notifySyncCompleted", "notifyNoDocumentsFound", "notifySyncError"}

IndexOps == {"clearIndex", "addDocuments"}

\* The terminal notifications of a trace that were delivered.
Delivered(trace) == {i \in At(trace, TerminalOps) : trace[i].ok}

Finished(s) == s.pc \in {"returned", "thrown"}

AllOk(trace) == \A i \in DOMAIN trace : trace[i].ok

Active == {r \in Runs : run[r].pc # "off"}

NumDocs(s) == Len(s.gen.source.items)

CeilDiv(n, b) == (n + b - 1) \div b

\* ------------------------------------------------------------------ claims

\* C1 (as stated): every finished run of syncDocuments has delivered exactly
\* one terminal notification, whichever calls failed.
C1_ExactlyOneTerminalAlways ==
  \A r \in Active :
    Finished(run[r]) => Cardinality(Delivered(run[r].trace)) = 1

\* C1 (amended): a run never delivers more than one terminal notification,
\* and a finished run has delivered exactly one if and only if its start
\* notification succeeded and no notifySyncError call of it failed;
\* otherwise it has delivered none.
C1_TerminalDelivery ==
  \A r \in Active :
    LET tr == run[r].trace IN
    /\ Cardinality(Delivered(tr)) <= 1
    /\ Finished(run[r]) =>
         (Cardinality(Delivered(tr)) = 1
            <=> /\ tr[1].op = "notifySyncStarting" /\ tr[1].ok
                /\ \A i \in At(tr, {"notifySyncError"}) : tr[i].ok)

\* A finished run whose completion notification failed and whose error
\* notification was then delivered: two terminal calls, one delivery.
C1_Witness ==
  \E r \in Active :
    LET tr == run[r].trace IN
    /\ Finished(run[r])
    /\ \E i \in At(tr, {"notifySyncCompleted"}) : ~tr[i].ok
    /\ Cardinality(Delivered(tr)) = 1

\* C2: when the run failed with error E and notifySyncError itself failed,
\* the notification failure is logged and the error syncDocuments throws is
\* still E.
C2_OriginalErrorReraised ==
  \A r \in Active :
    LET s == run[r] IN
    (/\ s.pc = "thrown"
     /\ \E i \in At(s.trace, {"notifySyncError"}) : ~s.trace[i].ok)
    => /\ s.thrown = s.caught
       /\ \E i \in DOMAIN s.logged : s.logged[i].site = "notifySyncError"

\* C3: no clearIndex or addDocuments call is made before notifySyncStarting
\* has returned; when notifySyncStarting throws, its error is what
\* syncDocuments throws and the run makes no other call at all.
C3_StartBeforeIndexMutation ==
  \A r \in Active :
    LET s == run[r] IN
    /\ \A i \in At(s.trace, IndexOps) :
         \E j \in 1..(i - 1) :
           s.trace[j].op = "notifySyncStarting" /\ s.trace[j].ok
    /\ (s.trace # <<>> /\ ~s.trace[1].ok) =>
         /\ Len(s.trace) = 1
         /\ s.trace[1].op = "notifySyncStarting"
         /\ s.pc = "thrown"
         /\ s.thrown = MkError(s.thrown.cls, "notifySyncStarting")
         /\ ~ENABLED Step(r)

\* A run that has issued an addDocuments call.
C3_Witness ==
  \E r \in Active : At(run[r].trace, {"addDocuments"}) # {}

\* C4: once a run has issued a terminal notification call, every later call
\* of the run is a terminal notification call too: no index-backend call, no
\* read of the source and no start notification follows it.
C4_TerminalNotificationLast ==
  \A r \in Active :
    LET tr == run[r].trace IN
    \A i \in At(tr, TerminalOps) :
      \A j \in DOMAIN tr : j > i => tr[j].op \in TerminalOps

\* A finished run whose failed completion notification was followed by the
\* error notification, after at least one addDocuments call.
C4_Witness ==
  \E r \in Active :
    LET tr == run[r].trace IN
    /\ Finished(run[r])
    /\ At(tr, {"addDocuments"}) # {}
    /\ \E i \in At(tr, {"notifySyncCompleted"}) :
         ~tr[i].ok /\ i < Len(tr) /\ tr[Len(tr)].op = "notifySyncError"

\* C5: a run over N >= 1 documents with batch size B in which no call fails
\* makes exactly ceil(N/B) addDocuments calls, whose batches concatenated in
\* call order are the source's documents in order, each but the last with
\* exactly B documents, and exactly one completion notification, which
\* follows the last addDocuments call.
C5_BatchesOfCompletedRun ==
  \A r \in Active :
    LET s == run[r]
        tr == s.trace
        adds == Calls(tr, "addDocuments") IN
    (Finished(s) /\ AllOk(tr) /\ NumDocs(s) >= 1) =>
      /\ s.pc = "returned"
      /\ Len(adds) = CeilDiv(NumDocs(s), s.size)
      /\ Concat([i \in DOMAIN adds |-> adds[i].arg]) = s.gen.source.items
      /\ \A i \in 1..(Len(adds) - 1) : Len(adds[i].arg) = s.size
      /\ Len(adds[Len(adds)].arg) \in 1..s.size
      /\ Cardinality(At(tr, {"notifySyncCompleted"})) = 1
      /\ tr[Len(tr)].op = "notifySyncCompleted"
      /\ \A i \in At(tr, {"addDocuments"}) : i < Len(tr)

\* A returned run over 5 documents with batch size 2: batches of 2, 2 and 1.
C5_Witness ==
  \E r \in Active :
    LET adds == Calls(run[r].trace, "addDocuments") IN
    /\ run[r].pc = "returned"
    /\ NumDocs(run[r]) = 5 /\ run[r].size = 2
    /\ [i \in DOMAIN adds |-> Len(adds[i].arg)] = <<2, 2, 1>>

\* C6: a run whose source yields no document and in which no call fails
\* returns (it does not throw) with all four counts zero, having made no
\* addDocuments call, exactly one notifyNoDocumentsFound call and neither a
\* notifySyncCompleted nor a notifySyncError call.
C6_ZeroDocumentsIsSuccess ==
  \A r \in Active :
    LET s == run[r]
        tr == s.trace IN
    (Finished(s) /\ AllOk(tr) /\ NumDocs(s) = 0) =>
      /\ s.pc = "returned"
      /\ s.result = [totalDocuments |-> 0, successCount |-> 0,
                     failedCount |-> 0, totalEntries |-> 0]
      /\ At(tr, {"addDocuments"}) = {}
      /\ Cardinality(At(tr, {"notifyNoDocumentsFound"})) = 1
      /\ At(tr, {"notifySyncCompleted", "notifySyncError"}) = {}

\* A returned run over an empty source.
C6_Witness ==
  \E r \in Active :
    /\ run[r].pc = "returned"
    /\ NumDocs(run[r]) = 0
    /\ At(run[r].trace, {"notifyNoDocumentsFound"}) # {}

\* C7: after a failed addDocuments call or a failure of the source the run
\* makes no further addDocuments call and no source read, never sends
\* notifySyncCompleted or notifyNoDocumentsFound, is in or past its catch
\* block, and when it has finished it has invoked notifySyncError and thrown.
C7_BatchFailureAbortsRun ==
  \A r \in Active :
    LET s == run[r]
        tr == s.trace IN
    \A i \in At(tr, {"addDocuments", "sourceNext"}) :
      ~tr[i].ok =>
        /\ \A j \in DOMAIN tr : j > i => tr[j].op = "notifySyncError"
        /\ At(tr, {"notifySyncCompleted", "notifyNoDocumentsFound"}) = {}
        /\ s.pc \in {"catch", "thrown"}
        /\ s.pc = "thrown" => tr[Len(tr)].op = "notifySyncError"
        /\ s.caught = (IF tr[i].op = "addDocuments"
                       THEN MkError(s.caught.cls, "addDocuments")
                       ELSE s.gen.source.err)

\* A thrown run whose second addDocuments call failed after the first one
\* returned, with documents of the source still unread.
C7_Witness ==
  \E r \in Active :
    LET tr == run[r].trace
        adds == Calls(tr, "addDocuments") IN
    /\ run[r].pc = "thrown"
    /\ Len(adds) = 2 /\ adds[1].ok /\ ~adds[2].ok
    /\ run[r].gen.pos < NumDocs(run[r])

\* C8: a run that caught an error makes exactly one notifySyncError call,
\* whose type is not_found exactly for a NotFoundError, system exactly for a
\* SystemError and unknown for anything else, with the message
\* "Unknown error" for a thrown value that is not an Error; a run that caught
\* nothing makes none.
C8_ErrorKindByClass ==
  \A r \in Active :
    LET s == run[r]
        errs == Calls(s.trace, "notifySyncError") IN
    Finished(s) =>
      IF s.caught = NoError
      THEN errs = <<>>
      ELSE /\ Len(errs) = 1
           /\ (errs[1].arg.type = "not_found") <=> (s.caught.cls = "NotFoundError")
           /\ (errs[1].arg.type = "system") <=> (s.caught.cls = "SystemError")
           /\ (errs[1].arg.type = "unknown")
                <=> (s.caught.cls \notin {"NotFoundError", "SystemError"})
           /\ s.caught.cls = "NonError" => errs[1].arg.message = "Unknown error"
           /\ s.caught.cls # "NonError" => errs[1].arg.message = s.caught.message

\* A finished run that caught a thrown value that is not an Error.
C8_Witness ==
  \E r \in Active :
    /\ Finished(run[r])
    /\ run[r].caught.cls = "NonError"
    /\ Len(Calls(run[r].trace, "notifySyncError")) = 1

\* C9: for a source that does not fail, the batches batchIterate has emitted
\* followed by the batch it is filling are always the items read so far;
\* every emitted batch but the one yielded after the end of the source has
\* exactly `size` items; and when the generator is done the emitted batches
\* concatenate to the whole input, the last has 1..size items, and an empty
\* input has emitted no batch.
C9_BatchesPartitionInput ==
  it.source.failAt = -1 =>
    LET items == it.source.items
        n == Len(emitted) IN
    /\ \A i \in 1..n : Len(emitted[i]) \in 1..it.size
    /\ \A i \in 1..(n - 1) : Len(emitted[i]) = it.size
    /\ it.at \in {"loop", "yield", "yieldTail"} =>
         /\ Concat(emitted) \o it.batch = SubSeq(items, 1, it.pos)
         /\ \A i \in 1..n : Len(emitted[i]) = it.size
    /\ it.at = "done" =>
         /\ Concat(emitted) = items
         /\ n = CeilDiv(Len(items), it.size)
         /\ items = <<>> => emitted = <<>>

\* A finished iteration over 5 items with size 2: batches of 2, 2 and 1.
C9_Witness ==
  /\ it.at = "done"
  /\ Len(it.source.items) = 5 /\ it.size = 2
  /\ [i \in DOMAIN emitted |-> Len(emitted[i])] = <<2, 2, 1>>

\* C10: with a source that fails after yielding k items the generator never
\* completes and never yields a partial batch; when the failure has reached
\* it, the generator has thrown the source's own error, no step is left, and
\* exactly floor(k/size) batches were emitted, all full, holding the first
\* floor(k/size)*size items and none of the incomplete batch.
C10_SourceFailurePropagates ==
  it.source.failAt >= 0 =>
    LET k == it.source.failAt
        full == k \div it.size IN
    /\ it.at \in {"loop", "yield", "threw"}
    /\ \A i \in DOMAIN emitted : Len(emitted[i]) = it.size
    /\ it.at = "threw" =>
         /\ it.err = it.source.err
         /\ it.pos = k
         /\ Len(emitted) = full
         /\ Concat(emitted) = SubSeq(it.source.items, 1, full * it.size)
         /\ ~ENABLED NextBatch

\* A failure after 3 items with size 2: one batch emitted, the third item
\* pushed but never emitted.
C10_Witness ==
  /\ it.at = "threw"
  /\ it.source.failAt = 3 /\ it.size = 2
  /\ emitted = << <<1, 2>> >>
  /\ it.batch = <<3>>

\* ---------------------------------------------- the adapters' retry loops

\* The largest maxRetries of a policy under test.
MaxRetries == 3

\* The adapters that wrap a remote call in a retry loop: message delivery
\* (LineApiClient.withRetry), document fetch (HttpSitemapDocumentSource
\* .fetchWithRetry under fetchAndParseDocument) and index mutation
\* (LlamaIndexGeminiIndexBuilder.addDocumentsWithRetry).
Impls == {"line", "fetch", "index"}

\* getStatusCode's null: the thrown value carries no numeric status.
NoStatus == -1

\* What one call of the wrapped operation did. A failure is the thrown value:
\* `obj` says whether it is a non-null object, `statusCode` and `status` are
\* its numeric fields of those names, NoStatus where the field is missing or
\* is not a number.
Success ==
  [ok |-> TRUE, obj |-> FALSE, statusCode |-> NoStatus, status |-> NoStatus]

MkThrown(obj, statusCode, status) ==
  [ok |-> FALSE, obj |-> obj, statusCode |-> statusCode, status |-> status]

\* Thrown values: a string, an Error without a status, errors with a
\* statusCode on and around the class boundaries, errors with only `status`,
\* and one that carries both fields.
ThrownErrors ==
  {MkThrown(FALSE, NoStatus, NoStatus), MkThrown(TRUE, NoStatus, NoStatus)}
    \cup {MkThrown(TRUE, c, NoStatus) :
            c \in {302, 400, 404, 429, 499, 500, 599, 600}}
    \cup {MkThrown(TRUE, NoStatus, 404), MkThrown(TRUE, NoStatus, 503),
          MkThrown(TRUE, 500, 404)}

\* The failures named by the comparison of the three loops: no status, 404,
\* 429 and 500.
CommonErrors ==
  {MkThrown(TRUE, NoStatus, NoStatus)}
    \cup {MkThrown(TRUE, c, NoStatus) : c \in {404, 429, 500}}

\* lineApiClient.ts 152-162
getStatusCode(error) ==
  IF error.obj /\ error.statusCode # NoStatus THEN error.statusCode
  ELSE IF error.obj /\ error.status # NoStatus THEN error.status
  ELSE NoStatus

\* lineApiClient.ts 130-150
\* Faulty variant: every failure is retried.
isRetryableErrorAlways(error) == TRUE
isRetryableError(error) ==
  LET statusCode == getStatusCode(error) IN
  IF statusCode = NoStatus THEN TRUE
  ELSE IF statusCode = 429 THEN TRUE
  ELSE IF statusCode >= 500 /\ statusCode < 600 THEN TRUE
  ELSE IF statusCode >= 400 /\ statusCode < 500 THEN FALSE
  ELSE TRUE

\* A retry policy: LineApiClientConfig's four fields. The other two adapters
\* are configured with maxRetries and retryDelay only; the comparison gives
\* them the policy's maxRetries and its initialDelayMs as retryDelay.
MkPolicy(maxRetries, initialDelayMs, maxDelayMs, backoffMultiplier) ==
  [maxRetries |-> maxRetries, initialDelayMs |-> initialDelayMs,
   maxDelayMs |-> maxDelayMs, backoffMultiplier |-> backoffMultiplier]

\* The constructor's defaults (lineApiClient.ts 30-33), the policy of the
\* documented example (initial delay 100, multiplier 2), and two policies
\* whose ceiling is reached within the first retries.
Policies ==
  {MkPolicy(r, t[1], t[2], t[3]) :
     r \in 0..MaxRetries,
     t \in {<<1000, 10000, 2>>, <<100, 10000, 2>>, <<100, 300, 2>>,
            <<100, 500, 3>>}}

RECURSIVE Pow(_, _)
Pow(b, e) == IF e = 0 THEN 1 ELSE b * Pow(b, e - 1)

Min(a, b) == IF a <= b THEN a ELSE b

\* lineApiClient.ts 103-106
\* Faulty variant: the delay is not capped.
withRetryDelayUncapped(p, attempt) ==
  p.initialDelayMs * Pow(p.backoffMultiplier, attempt)
withRetryDelay(p, attempt) ==
  Min(p.initialDelayMs * Pow(p.backoffMultiplier, attempt), p.maxDelayMs)

\* part_018 235 and indexBuilder.ts 335: retryDelay * 2 ** attempt
retryDelayTimesTwoPow(p, attempt) == p.initialDelayMs * Pow(2, attempt)

Backoff(i, p, attempt) ==
  IF i = "line" THEN withRetryDelay(p, attempt)
  ELSE retryDelayTimesTwoPow(p, attempt)

\* The value of a variable that holds no error yet.
Undefined == Success

\* A retry loop that has not been entered: `attempt` is the loop variable,
\* `calls` counts the invocations of the wrapped operation, `outcomes` lists
\* what they did, `delays` the waits between them, `result` how the loop ended.
LoopOff ==
  [pc |-> "off", attempt |-> 0, calls |-> 0, outcomes |-> <<>>,
   delays |-> <<>>, lastError |-> Undefined,
   result |-> [kind |-> "pending", cause |-> Undefined]]

\* `return` inside the try block.
Returned(l) ==
  [l EXCEPT !.pc = "returned",
            !.result = [kind |-> "returned", cause |-> Undefined]]

\* The throw that follows the loop: lineApiClient.ts 112-116 wraps lastError
\* in SystemError(NetworkError); part_018 241 throws lastError itself, which
\* is the SystemError(NetworkError) that fetchWithTimeout made of the
\* rejection (part_018 259-271); indexBuilder.ts 341-345 wraps lastError in
\* SystemError(IndexAddFailed).
\* Faulty variant: exhaustion is reported with the code of a rejected call.
ExhaustedAsRejected(i, l) ==
  [l EXCEPT !.pc = "thrown",
            !.result = [kind |-> "INTERNAL_SERVER_ERROR",
                        cause |-> l.lastError]]
Exhausted(i, l) ==
  [l EXCEPT !.pc = "thrown",
            !.result = [kind |-> IF i = "index" THEN "INDEX_ADD_FAILED"
                                 ELSE "NETWORK_ERROR",
                        cause |-> l.lastError]]

\* The loop test `attempt <= maxRetries` (lineApiClient.ts 87, part_018 227,
\* indexBuilder.ts 317).
\* Faulty variant: the last attempt is not made.
LoopTestStrict(p, attempt) == attempt < p.maxRetries
LoopTest(p, attempt) == attempt <= p.maxRetries

\* The head of the for loop of adapter i.
Iterate(i, p, l) ==
  IF LoopTest(p, l.attempt) THEN [l EXCEPT !.pc = "call"]
  ELSE Exhausted(i, l)

\* The end of the catch block (lineApiClient.ts 102-108, part_018 233-237,
\* indexBuilder.ts 333-337): wait before the next attempt if there is one.
Retry(i, p, l) ==
  IF l.attempt < p.maxRetries THEN [l EXCEPT !.pc = "sleep"]
  ELSE Iterate(i, p, [l EXCEPT !.attempt = @ + 1])

\* lineApiClient.ts 94-100
Rejected(l, error) ==
  [l EXCEPT !.pc = "thrown",
            !.result = [kind |-> "INTERNAL_SERVER_ERROR", cause |-> error]]

\* lineApiClient.ts 88-109: one pass of the loop body of withRetry, given
\* what `await fn()` did.
withRetry(p, l, o) ==
  IF o.ok THEN Returned(l)
  ELSE LET m == [l EXCEPT !.lastError = o] IN
       IF ~isRetryableError(o) THEN Rejected(m, o) ELSE Retry("line", p, m)

\* error instanceof Error ? error : new Error(String(error))
asError(error) ==
  IF error.obj THEN error ELSE MkThrown(TRUE, NoStatus, NoStatus)

\* part_018 158-166 and 228-238: fetch resolves with a Response whatever its
\* status, so an outcome that has a status leaves the loop through `return`
\* and fetchAndParseDocument throws SystemError(NetworkError) for a response
\* that is not ok; a rejection (no status) is caught and retried.
fetchWithRetry(p, l, o) ==
  IF o.ok THEN Returned(l)
  ELSE IF getStatusCode(o) # NoStatus
  THEN [l EXCEPT !.pc = "thrown",
                 !.result = [kind |-> "NETWORK_ERROR", cause |-> Undefined]]
  ELSE Retry("fetch", p, [l EXCEPT !.lastError = asError(o)])

\* indexBuilder.ts 318-338
addDocumentsWithRetry(p, l, o) ==
  IF o.ok THEN Returned(l)
  ELSE Retry("index", p, [l EXCEPT !.lastError = asError(o)])

\* Adapter i invokes the wrapped operation, which does `o`.
Call(i, p, l, o) ==
  LET m == [l EXCEPT !.calls = @ + 1, !.outcomes = Append(@, o)] IN
  CASE i = "line" -> withRetry(p, m, o)
    [] i = "fetch" -> fetchWithRetry(p, m, o)
    [] i = "index" -> addDocumentsWithRetry(p, m, o)

\* The awaited sleep is over: attempt++ and the loop test.
Slept(i, p, l) ==
  Iterate(i, p, [l EXCEPT !.delays = Append(@, Backoff(i, p, l.attempt)),
                          !.attempt = @ + 1])

\* The loop of adapter i on entry.
Entered(i, p) == Iterate(i, p, LoopOff)

\* LineApiClient.withRetry on its own, for every policy and an operation `fn`
\* that can throw any of ThrownErrors.
InitRetry ==
  /\ run = [r \in Runs |-> Idle]
  /\ index = <<>>
  /\ it = IdleIterator
  /\ emitted = <<>>
  /\ \E p \in Policies :
       rx = [policy |-> p, fn |-> ThrownErrors,
             loop |-> [i \in Impls |->
                         IF i = "line" THEN Entered(i, p) ELSE LoopOff]]
  /\ sp = <<>>
  /\ dom = <<>>
  /\ qa = <<>>

\* The three loops side by side under one policy, wrapping the same operation.
InitRetryAll ==
  /\ run = [r \in Runs |-> Idle]
  /\ index = <<>>
  /\ it = IdleIterator
  /\ emitted = <<>>
  /\ \E p \in Policies :
       rx = [policy |-> p, fn |-> CommonErrors,
             loop |-> [i \in Impls |-> Entered(i, p)]]
  /\ sp = <<>>
  /\ dom = <<>>
  /\ qa = <<>>

\* `await fn()`: the operation is invoked and succeeds or throws. The loops
\* that are at their k-th call are given the same k-th outcome.
Attempt ==
  /\ \E i \in Impls : rx.loop[i].pc = "call"
  /\ \A i \in Impls : rx.loop[i].pc # "sleep"
  /\ \E o \in {Success} \cup rx.fn :
       rx' = [rx EXCEPT !.loop =
                [i \in Impls |->
                   IF rx.loop[i].pc = "call"
                   THEN Call(i, rx.policy, rx.loop[i], o)
                   ELSE rx.loop[i]]]
  /\ UNCHANGED <<run, index, it, emitted, sp, dom, qa>>

\* `await this.sleep(delay)` / `await this.delay(delayMs)`
Sleep(i) ==
  /\ rx.loop[i].pc = "sleep"
  /\ rx' = [rx EXCEPT !.loop[i] = Slept(i, rx.policy, @)]
  /\ UNCHANGED <<run, index, it, emitted, sp, dom, qa>>

NextRetry == Attempt \/ \E i \in Impls : Sleep(i)

SpecRetry == InitRetry /\ [][NextRetry]_vars

SpecRetryAll == InitRetryAll /\ [][NextRetry]_vars

\* --------------------------------------------- claims on the retry executor

\* LineApiClient's loop and its policy.
Line == rx.loop["line"]

LinePolicy == rx.policy

\* The failures among the outcomes of a loop.
Failures(l) == {k \in DOMAIN l.outcomes : ~l.outcomes[k].ok}

\* The k-th call failed and the loop did not reject it: it went on to wait,
\* to call again, or to give up for lack of attempts.
TreatedRetryable(l, k) ==
  ~(k = Len(l.outcomes) /\ l.result.kind = "INTERNAL_SERVER_ERROR")

\* After a rejected failure nothing follows: the loop has thrown, every call
\* is in `outcomes`, and the only delays are those between the calls.
StopsAtRejection(l) ==
  \A k \in Failures(l) :
    ~TreatedRetryable(l, k) =>
      /\ l.pc = "thrown"
      /\ l.calls = k
      /\ Len(l.delays) = k - 1
      /\ (k = 1 => l.calls = 1 /\ l.delays = <<>>)

\* C11 as stated: a failure is retryable if and only if it has no status
\* code, or its status is 429, or its status is in 500..599; a failure with
\* a non-retryable status stops the executor at once.
C11_RetryableIffTransient ==
  /\ \A k \in Failures(Line) :
       LET c == getStatusCode(Line.outcomes[k]) IN
       TreatedRetryable(Line, k) <=>
         (c = NoStatus \/ c = 429 \/ c \in 500..599)
  /\ StopsAtRejection(Line)

\* C11, amended: a failure is non-retryable if and only if its status code is
\* in 400..499 and is not 429; every other failure is retryable, a status
\* outside 400..599 (302, 600) included; a failure with a non-retryable
\* status stops the executor at once: no delay and no further attempt follow
\* it, and when it is the first failure the operation was attempted exactly
\* once.
C11_NonRetryableIffClientError ==
  /\ \A k \in Failures(Line) :
       LET c == getStatusCode(Line.outcomes[k]) IN
       ~TreatedRetryable(Line, k) <=> (c \in 400..499 /\ c # 429)
  /\ StopsAtRejection(Line)

\* An operation that fails with 404 on its first call: one attempt, no delay.
C11_Witness ==
  /\ LinePolicy.maxRetries = 3
  /\ Line.outcomes = <<MkThrown(TRUE, 404, NoStatus)>>
  /\ Line.pc = "thrown"
  /\ Line.calls = 1
  /\ Line.delays = <<>>

\* The failures that the classifier lets the loop retry.
AllRetryable(l) ==
  \A k \in DOMAIN l.outcomes :
    ~l.outcomes[k].ok /\ isRetryableError(l.outcomes[k])

\* C12: with maxRetries = R, an operation that fails with a retryable error
\* on every attempt is invoked exactly R + 1 times and the executor then
\* ends with the exhausted-retries failure that wraps the last error; an
\* operation that succeeds on attempt i <= R + 1 is invoked exactly i times
\* and no failure is surfaced.
C12_AttemptsBoundedByPolicy ==
  LET R == LinePolicy.maxRetries IN
  /\ Line.calls = Len(Line.outcomes)
  /\ Line.calls <= R + 1
  /\ (AllRetryable(Line) /\ Len(Line.outcomes) = R + 1) =>
       /\ Line.pc = "thrown"
       /\ Line.calls = R + 1
       /\ Line.result.kind = "NETWORK_ERROR"
       /\ Line.result.cause = Line.outcomes[R + 1]
  /\ (AllRetryable(Line) /\ Len(Line.outcomes) < R + 1) =>
       Line.pc \in {"call", "sleep"}
  /\ \A i \in DOMAIN Line.outcomes :
       Line.outcomes[i].ok =>
         /\ i = Len(Line.outcomes)
         /\ Line.calls = i
         /\ Line.pc = "returned"
         /\ Line.result.kind = "returned"
  /\ Line.pc = "returned" =>
       Line.outcomes # <<>> /\ Line.outcomes[Len(Line.outcomes)].ok

\* maxRetries = 3 and an operation that always fails with 500: 4 attempts.
C12_Witness ==
  /\ LinePolicy.maxRetries = 3
  /\ Line.outcomes = [k \in 1..4 |-> MkThrown(TRUE, 500, NoStatus)]
  /\ Line.calls = 4
  /\ Line.pc = "thrown"
  /\ Line.result.kind = "NETWORK_ERROR"

\* C13: the failure surfaced after the retries are exhausted has the code
\* NETWORK_ERROR, the failure surfaced when a non-retryable error rejects the
\* call has the code INTERNAL_SERVER_ERROR, so every failed outcome tells the
\* two apart; both carry the underlying error as their cause.
C13_ExhaustedDistinctFromRejected ==
  LET n == Len(Line.outcomes) IN
  Line.pc = "thrown" =>
    /\ n >= 1
    /\ ~Line.outcomes[n].ok
    /\ Line.result.cause = Line.outcomes[n]
    /\ Line.result.kind \in {"NETWORK_ERROR", "INTERNAL_SERVER_ERROR"}
    /\ Line.result.kind = "NETWORK_ERROR" <=>
         (AllRetryable(Line) /\ n = LinePolicy.maxRetries + 1)
    /\ Line.result.kind = "INTERNAL_SERVER_ERROR" <=>
         ~isRetryableError(Line.outcomes[n])

\* One retry, a network failure and then a 429: exhausted, cause 429.
C13_Witness ==
  /\ LinePolicy.maxRetries = 1
  /\ Line.outcomes =
       <<MkThrown(TRUE, NoStatus, NoStatus), MkThrown(TRUE, 429, NoStatus)>>
  /\ Line.pc = "thrown"
  /\ Line.result =
       [kind |-> "NETWORK_ERROR", cause |-> MkThrown(TRUE, 429, NoStatus)]

\* --------------------------------------------------------- splitLongMessage

\* valueObject.ts 213
MAX_TEXT_LENGTH == 5000

\* splitLongMessage.ts 3
MAX_MESSAGES == 5

\* splitLongMessage.ts 4: TRUNCATION_MESSAGE.length
TRUNCATION_MESSAGE_LENGTH == 15

\* Texts under test are up to MaxBlocks times MAX_TEXT_LENGTH long, plus a
\* few characters.
MaxBlocks == 5

\* A text is its length and the positions of its "。" and "\n" characters
\* (`breaks`, records [pos, ch]); every other character is alike to the
\* function. A substring of the text is [from, len].
MkText(len, breaks) == [len |-> len, breaks |-> breaks]

\* Lengths on and around the multiples of MAX_TEXT_LENGTH and of the room
\* left by the truncation marker.
TextLengths ==
  {q * MAX_TEXT_LENGTH + d :
     q \in 0..MaxBlocks,
     d \in {0, 1, MAX_TEXT_LENGTH - TRUNCATION_MESSAGE_LENGTH,
            MAX_TEXT_LENGTH - 1}}

\* Where a break character may stand: at the start, in the middle and at the
\* end of each block of MAX_TEXT_LENGTH characters.
BreakPositions ==
  {q * MAX_TEXT_LENGTH + d :
     q \in 0..MaxBlocks, d \in {0, 2500, MAX_TEXT_LENGTH - 1}}

BreakChars == {"period", "newline"}

\* Texts with no, one or two break characters.
Texts ==
  LET Breaks == [pos : BreakPositions, ch : BreakChars] IN
  {MkText(n, B) :
     n \in TextLengths,
     B \in {{}} \cup {{a, b} : a \in Breaks, b \in Breaks}}

\* Texts are well formed: a break stands inside the text, one per position.
ValidTexts ==
  {t \in Texts :
     /\ \A b \in t.breaks : b.pos < t.len
     /\ \A a \in t.breaks, b \in t.breaks : a.pos = b.pos => a = b}

MathMax(a, b) == IF a >= b THEN a ELSE b

\* remaining.substring(0, MAX_TEXT_LENGTH).lastIndexOf(ch), where remaining
\* is the text from offset `from`: -1 when ch is not in the range.
lastIndexOf(text, from, ch) ==
  LET found == {b.pos - from :
                  b \in {c \in text.breaks :
                           /\ c.ch = ch
                           /\ c.pos >= from
                           /\ c.pos < from + MAX_TEXT_LENGTH}} IN
  IF found = {} THEN -1
  ELSE CHOOSE x \in found : \A y \in found : y <= x

\* Line 56: the room left for the content of a truncated last message.
\* Faulty variant: no room is reserved for the marker.
allowedLengthWhole == MAX_TEXT_LENGTH
allowedLength == MAX_TEXT_LENGTH - TRUNCATION_MESSAGE_LENGTH

\* A message of the result: the substring [from, len] of the text, followed
\* by TRUNCATION_MESSAGE when `marker` is set.
Chunk(from, len) == [from |-> from, len |-> len, marker |-> FALSE]

\* splitLongMessage(text) before its first statement. `remaining` is the
\* offset at which the variable `remaining` starts in the text; `consumed`
\* counts the characters the loop has pushed into `messages`.
SplitCall(text) ==
  [pc |-> "entry", text |-> text, remaining |-> 0, messages |-> <<>>,
   consumed |-> 0]

RemainingLength(s) == s.text.len - s.remaining

\* Lines 19-28: the two early returns, or the loop is entered.
SplitEntered(s) ==
  IF s.text.len = 0 THEN [s EXCEPT !.pc = "done"]
  ELSE IF s.text.len <= MAX_TEXT_LENGTH
  THEN [s EXCEPT !.pc = "done", !.messages = <<Chunk(0, s.text.len)>>,
                 !.consumed = s.text.len]
  ELSE [s EXCEPT !.pc = "loop"]

\* Line 30: the loop condition.
LoopCondition(s) ==
  RemainingLength(s) > 0 /\ Len(s.messages) < MAX_MESSAGES

\* Lines 31-49: one pass of the loop body. The pass that pushes the whole of
\* `remaining` breaks out of the loop and leaves `remaining` as it is.
\* Faulty variant: a break character at position 0 is taken for a split point.
SplitBodyBreakAtZero(s) ==
  IF RemainingLength(s) <= MAX_TEXT_LENGTH
  THEN [s EXCEPT !.messages = Append(@, Chunk(s.remaining, RemainingLength(s))),
                 !.consumed = @ + RemainingLength(s),
                 !.pc = "tail"]
  ELSE LET lastPeriod == lastIndexOf(s.text, s.remaining, "period")
           lastNewline == lastIndexOf(s.text, s.remaining, "newline")
           splitPos == MathMax(lastPeriod, lastNewline)
           n == IF splitPos >= 0 THEN splitPos + 1 ELSE MAX_TEXT_LENGTH
           t == [s EXCEPT !.messages = Append(@, Chunk(s.remaining, n)),
                          !.consumed = @ + n,
                          !.remaining = @ + n] IN
       IF LoopCondition(t) THEN t ELSE [t EXCEPT !.pc = "tail"]
SplitBody(s) ==
  IF RemainingLength(s) <= MAX_TEXT_LENGTH
  THEN [s EXCEPT !.messages = Append(@, Chunk(s.remaining, RemainingLength(s))),
                 !.consumed = @ + RemainingLength(s),
                 !.pc = "tail"]
  ELSE LET lastPeriod == lastIndexOf(s.text, s.remaining, "period")
           lastNewline == lastIndexOf(s.text, s.remaining, "newline")
           splitPos == MathMax(lastPeriod, lastNewline)
           n == IF splitPos > 0 THEN splitPos + 1 ELSE MAX_TEXT_LENGTH
           t == [s EXCEPT !.messages = Append(@, Chunk(s.remaining, n)),
                          !.consumed = @ + n,
                          !.remaining = @ + n] IN
       IF LoopCondition(t) THEN t ELSE [t EXCEPT !.pc = "tail"]

\* Lines 53-63: the truncation marker and the return.
SplitTail(s) ==
  IF RemainingLength(s) > 0 /\ Len(s.messages) = MAX_MESSAGES
  THEN LET lastMessage == s.messages[MAX_MESSAGES] IN
       [s EXCEPT !.pc = "done",
                 !.messages[MAX_MESSAGES] =
                   [lastMessage EXCEPT
                      !.len = IF @ > allowedLength THEN allowedLength ELSE @,
                      !.marker = TRUE]]
  ELSE [s EXCEPT !.pc = "done"]

InitSplit ==
  /\ run = [r \in Runs |-> Idle]
  /\ index = <<>>
  /\ it = IdleIterator
  /\ emitted = <<>>
  /\ rx = <<>>
  /\ \E t \in ValidTexts : sp = SplitCall(t)
  /\ dom = <<>>
  /\ qa = <<>>

SplitEnter ==
  /\ sp.pc = "entry"
  /\ sp' = SplitEntered(sp)
  /\ UNCHANGED <<run, index, it, emitted, rx, dom, qa>>

SplitLoop ==
  /\ sp.pc = "loop"
  /\ sp' = SplitBody(sp)
  /\ UNCHANGED <<run, index, it, emitted, rx, dom, qa>>

SplitReturn ==
  /\ sp.pc = "tail"
  /\ sp' = SplitTail(sp)
  /\ UNCHANGED <<run, index, it, emitted, rx, dom, qa>>

NextSplit == SplitEnter \/ SplitLoop \/ SplitReturn

SpecSplit == InitSplit /\ [][NextSplit]_vars

\* ------------------------------------------------ claims on the splitter

\* The length of a returned message: its content and, if set, the marker.
ChunkLength(c) ==
  c.len + IF c.marker THEN TRUNCATION_MESSAGE_LENGTH ELSE 0

Marked(ms) == {i \in DOMAIN ms : ms[i].marker}

RECURSIVE ContentLength(_)
ContentLength(ms) ==
  IF ms = <<>> THEN 0 ELSE Head(ms).len + ContentLength(Tail(ms))

\* C14: splitLongMessage returns at most 5 chunks, every returned chunk, a
\* last chunk that carries the truncation marker included, is at most 5000
\* characters long, and the result is empty if and only if the input is the
\* empty string.
C14_ChunksWithinLimits ==
  sp.pc = "done" =>
    /\ Len(sp.messages) <= MAX_MESSAGES
    /\ \A i \in DOMAIN sp.messages :
         ChunkLength(sp.messages[i]) <= MAX_TEXT_LENGTH
    /\ sp.messages = <<>> <=> sp.text.len = 0

\* A text of 25001 characters without a break: five chunks, the last one
\* trimmed and marked, exactly 5000 characters long.
C14_Witness ==
  /\ sp.pc = "done"
  /\ sp.text = MkText(5 * MAX_TEXT_LENGTH + 1, {})
  /\ Len(sp.messages) = MAX_MESSAGES
  /\ sp.messages[MAX_MESSAGES].marker
  /\ ChunkLength(sp.messages[MAX_MESSAGES]) = MAX_TEXT_LENGTH

\* C15: the truncation marker is appended to the last chunk if and only if
\* text remains un-emitted after 5 chunks have been produced; when the whole
\* text fits within the 5 chunks no marker is appended and no chunk is
\* trimmed; when the marker is appended, content plus marker is at most 5000
\* characters.
C15_MarkerOnlyWhenTextRemains ==
  sp.pc = "done" =>
    /\ Marked(sp.messages) # {} <=>
         (Len(sp.messages) = MAX_MESSAGES /\ sp.consumed < sp.text.len)
    /\ Marked(sp.messages) \subseteq {MAX_MESSAGES}
    /\ sp.consumed = sp.text.len =>
         /\ Marked(sp.messages) = {}
         /\ ContentLength(sp.messages) = sp.text.len
    /\ \A i \in Marked(sp.messages) :
         ChunkLength(sp.messages[i]) <= MAX_TEXT_LENGTH

\* ------------------------------------------------- claims on the counts

\* The documents of the batches a run handed to addDocuments.
Submitted(s) ==
  Concat([i \in DOMAIN Calls(s.trace, "addDocuments") |->
            Calls(s.trace, "addDocuments")[i].arg])

\* A run that returned after the completion notification.
Completed(s) == s.pc = "returned" /\ ~NoDocuments(s)

\* The counts of a completed run that hold whatever addDocuments reports.
CompletedCounts(s) ==
  LET done == s.trace[Len(s.trace)] IN
  /\ s.result.totalEntries = s.reported.totalEntries
  /\ s.result.totalDocuments = Len(Submitted(s))
  /\ s.result.totalDocuments = NumDocs(s)
  /\ s.result.successCount = s.result.totalDocuments
  /\ s.result.failedCount = 0
  /\ done.op = "notifySyncCompleted"
  /\ done.arg.syncResult.totalCount = s.result.totalDocuments
  /\ done.arg.buildResult.totalEntries = s.result.totalEntries

\* C16 as stated: on a completed run with at least one document totalEntries
\* is the sum of the entry counts reported by addDocuments, the document
\* count is the sum of the document counts reported by addDocuments, and
\* successCount = totalDocuments = the number of documents the source
\* yielded, with failedCount = 0.
C16_CountsAreReportedTotals ==
  \A r \in Active :
    Completed(run[r]) =>
      /\ CompletedCounts(run[r])
      /\ run[r].result.totalDocuments = run[r].reported.totalDocuments

\* C16, amended: on a completed run with at least one document totalEntries
\* is the sum of the entry counts reported by addDocuments; the document
\* count is the number of documents in the batches handed to addDocuments,
\* whatever document counts addDocuments reported; successCount =
\* totalDocuments = the number of documents the source yielded, and
\* failedCount = 0.
C16_CountsAreSubmittedTotals ==
  \A r \in Active : Completed(run[r]) => CompletedCounts(run[r])

\* Three documents in batches of two, entries 2 and 1 reported, and a backend
\* that reported no document for the second batch.
C16_Witness ==
  \E r \in Active :
    /\ Completed(run[r])
    /\ Len(Calls(run[r].trace, "addDocuments")) = 2
    /\ run[r].result =
         [totalDocuments |-> 3, successCount |-> 3, failedCount |-> 0,
          totalEntries |-> 3]
    /\ run[r].reported = [totalDocuments |-> 2, totalEntries |-> 3]

\* ------------------------------------- constructors of the domain layer

\* The longest list of {id, success} pairs given to createSyncResult.
MaxResults == 3

\* The longest string given to a constructor.
MaxStringLen == 2

\* Strings are sequences of characters; one blank and one other character
\* tell an empty, a whitespace-only and a proper string apart.
Chars == {" ", "a"}

Strings == UNION {[1..n -> Chars] : n \in 0..MaxStringLen}

\* An optional property: a string or undefined.
Absent == [present |-> FALSE, value |-> <<>>]

Some(value) == [present |-> TRUE, value |-> value]

Optionals == {Absent} \cup {Some(v) : v \in Strings}

RECURSIVE trimStart(_)
trimStart(value) ==
  IF value # <<>> /\ Head(value) = " " THEN trimStart(Tail(value)) ELSE value

RECURSIVE trimEnd(_)
trimEnd(value) ==
  IF value # <<>> /\ value[Len(value)] = " "
  THEN trimEnd(SubSeq(value, 1, Len(value) - 1))
  ELSE value

\* String.prototype.trim
trim(value) == trimEnd(trimStart(value))

\* !value || value.trim() === ""
isBlank(value) == value = <<>> \/ trim(value) = <<>>

\* !params.userId, for an optional string
isFalsy(opt) == ~opt.present \/ opt.value = <<>>

\* What a call did: returned a value or threw an error of the given code.
Return(value) == [ok |-> TRUE, value |-> value]

Throw(code) == [ok |-> FALSE, value |-> code]

\* entity.ts 63: the filter of createSyncResult
\* Faulty variant: the successful results are taken for the failed ones.
isFailedInverted(r) == r.success
isFailed(r) == ~r.success

\* entity.ts 60-70
createSyncResult(results) ==
  LET failed == SelectSeq(results, isFailed)
      failedIds == [i \in DOMAIN failed |-> failed[i].id] IN
  [totalCount |-> Len(results),
   successCount |-> Len(results) - Len(failedIds),
   failedCount |-> Len(failedIds),
   failedIds |-> failedIds]

\* entity.ts 20-40: only `content` is checked; `title` is cast.
createDocument(params) ==
  IF isBlank(params.content) THEN Throw("DOCUMENT_EMPTY_CONTENT")
  ELSE Return([title |-> params.title, content |-> params.content])

\* message/valueObject.ts 113-145
createUserId(value) ==
  IF isBlank(value) THEN Throw("INVALID_EVENT_SOURCE") ELSE Return(value)

createGroupId(value) ==
  IF isBlank(value) THEN Throw("INVALID_EVENT_SOURCE") ELSE Return(value)

createRoomId(value) ==
  IF isBlank(value) THEN Throw("INVALID_EVENT_SOURCE") ELSE Return(value)

\* message/valueObject.ts 161-180: the three guards of createEventSource
\* Faulty variant: only the user kind is guarded.
RequiredIdMissingUserOnly(params) ==
  params.type = "user" /\ isFalsy(params.userId)
RequiredIdMissing(params) ==
  \/ params.type = "user" /\ isFalsy(params.userId)
  \/ params.type = "group" /\ isFalsy(params.groupId)
  \/ params.type = "room" /\ isFalsy(params.roomId)

\* message/valueObject.ts 154-187
createEventSource(params) ==
  IF RequiredIdMissing(params) THEN Throw("INVALID_EVENT_SOURCE")
  ELSE LET userId == IF isFalsy(params.userId) THEN Return(<<>>)
                     ELSE createUserId(params.userId.value)
           groupId == IF isFalsy(params.groupId) THEN Return(<<>>)
                      ELSE createGroupId(params.groupId.value)
           roomId == IF isFalsy(params.roomId) THEN Return(<<>>)
                     ELSE createRoomId(params.roomId.value) IN
       IF ~userId.ok THEN userId
       ELSE IF ~groupId.ok THEN groupId
       ELSE IF ~roomId.ok THEN roomId
       ELSE Return(
         [type |-> params.type,
          userId |-> IF isFalsy(params.userId) THEN Absent
                     ELSE Some(userId.value),
          groupId |-> IF isFalsy(params.groupId) THEN Absent
                      ELSE Some(groupId.value),
          roomId |-> IF isFalsy(params.roomId) THEN Absent
                     ELSE Some(roomId.value)])

\* message/valueObject.ts 189-204, for the three kinds an EventSource has
getEventSourceDestination(source) ==
  CASE source.type = "user" -> source.userId
    [] source.type = "group" -> source.groupId
    [] source.type = "room" -> source.roomId

\* A call of function `fn` with arguments `args`, about to be made.
DomainCall(fn, args) ==
  [fn |-> fn, args |-> args, pc |-> "call", value |-> <<>>,
   destination |-> Absent]

\* The lists of {id, success} pairs.
ResultLists ==
  UNION {[1..n -> [id : {"d1", "d2", "d3"}, success : BOOLEAN]] :
           n \in 0..MaxResults}

DomainCalls ==
  {DomainCall("createSyncResult", rs) : rs \in ResultLists}
    \cup {DomainCall("syncResult", n) : n \in 1..MaxDocs}
    \cup {DomainCall("createDocument", [title |-> t, content |-> c]) :
            t \in Strings, c \in Strings}
    \cup {DomainCall("createEventSource",
                     [type |-> k, userId |-> u, groupId |-> g, roomId |-> r]) :
            k \in {"user", "group", "room"},
            u \in Optionals, g \in Optionals, r \in Optionals}

InitDomain ==
  /\ run = [r \in Runs |-> Idle]
  /\ index = <<>>
  /\ it = IdleIterator
  /\ emitted = <<>>
  /\ rx = <<>>
  /\ sp = <<>>
  /\ dom \in DomainCalls
  /\ qa = <<>>

\* The call returns `o.value` or throws it.
Finish(d, o) ==
  [d EXCEPT !.pc = IF o.ok THEN "returned" ELSE "threw", !.value = o.value]

CreateSyncResult ==
  /\ dom.fn = "createSyncResult" /\ dom.pc = "call"
  /\ dom' = Finish(dom, Return(createSyncResult(dom.args)))
  /\ UNCHANGED <<run, index, it, emitted, rx, sp, qa>>

\* syncDocuments.ts 87-92: the SyncResult literal of a run that counted
\* dom.args documents.
BuildSyncResult ==
  /\ dom.fn = "syncResult" /\ dom.pc = "call"
  /\ dom' = Finish(dom, Return(SyncResultOf(dom.args)))
  /\ UNCHANGED <<run, index, it, emitted, rx, sp, qa>>

CreateDocument ==
  /\ dom.fn = "createDocument" /\ dom.pc = "call"
  /\ dom' = Finish(dom, createDocument(dom.args))
  /\ UNCHANGED <<run, index, it, emitted, rx, sp, qa>>

CreateEventSource ==
  /\ dom.fn = "createEventSource" /\ dom.pc = "call"
  /\ dom' = Finish(dom, createEventSource(dom.args))
  /\ UNCHANGED <<run, index, it, emitted, rx, sp, qa>>

\* syncDocuments.ts 45: the destination of the EventSource that was built.
GetEventSourceDestination ==
  /\ dom.fn = "createEventSource" /\ dom.pc = "returned"
  /\ dom' = [dom EXCEPT !.pc = "destination",
                        !.destination = getEventSourceDestination(dom.value)]
  /\ UNCHANGED <<run, index, it, emitted, rx, sp, qa>>

NextDomain ==
  \/ CreateSyncResult
  \/ BuildSyncResult
  \/ CreateDocument
  \/ CreateEventSource
  \/ GetEventSourceDestination

SpecDomain == InitDomain /\ [][NextDomain]_vars

\* ---------------------------------------- claims on the domain constructors

\* The positions of the results marked unsuccessful.
FailedAt(results) == {i \in DOMAIN results : ~results[i].success}

\* The invariant of a SyncResult.
SyncResultInvariant(v) ==
  /\ v.successCount + v.failedCount = v.totalCount
  /\ Len(v.failedIds) = v.failedCount

\* C17: for every list of {id, success} pairs createSyncResult returns
\* totalCount = the length of the list, successCount + failedCount =
\* totalCount, failedIds.length = failedCount, and failedIds are exactly the
\* ids marked unsuccessful, in their original order; the SyncResult built by
\* syncDocuments satisfies the same invariant.
C17_SyncResultInvariant ==
  /\ (dom.fn = "createSyncResult" /\ dom.pc = "returned") =>
       LET rs == dom.args
           v == dom.value IN
       /\ v.totalCount = Len(rs)
       /\ SyncResultInvariant(v)
       /\ v.successCount >= 0 /\ v.failedCount = Cardinality(FailedAt(rs))
       /\ \A i \in FailedAt(rs) :
            v.failedIds[Cardinality({j \in FailedAt(rs) : j <= i})] = rs[i].id
  /\ (dom.fn = "syncResult" /\ dom.pc # "call") =>
       /\ dom.pc = "returned"
       /\ SyncResultInvariant(dom.value)
       /\ dom.value.totalCount = dom.args
  /\ (dom.fn = "createSyncResult" /\ dom.pc # "call") => dom.pc = "returned"

\* Three results, the first and the last failed: failedIds keeps their order.
C17_Witness ==
  /\ dom.fn = "createSyncResult"
  /\ dom.pc = "returned"
  /\ dom.args = <<[id |-> "d3", success |-> FALSE],
                  [id |-> "d2", success |-> TRUE],
                  [id |-> "d1", success |-> FALSE]>>
  /\ dom.value = [totalCount |-> 3, successCount |-> 1, failedCount |-> 2,
                  failedIds |-> <<"d3", "d1">>]

\* C19: constructing a Document with an empty or whitespace-only title, or
\* with empty content, fails at construction; createDocument produces no
\* Document with an empty title or empty content.
C19_EmptyTitleOrContentRejected ==
  (dom.fn = "createDocument" /\ dom.pc # "call") =>
    /\ (isBlank(dom.args.title) \/ isBlank(dom.args.content)) =>
         dom.pc = "threw"
    /\ dom.pc = "returned" =>
         /\ ~isBlank(dom.value.title)
         /\ ~isBlank(dom.value.content)

\* The identifier that createEventSource was given for the declared kind.
MatchingId(params) ==
  CASE params.type = "user" -> params.userId
    [] params.type = "group" -> params.groupId
    [] params.type = "room" -> params.roomId

\* C20: createEventSource fails whenever the identifier matching the
\* declared kind is absent or empty; for every EventSource it returns,
\* getEventSourceDestination yields the non-empty identifier of the declared
\* kind, never undefined.
C20_DestinationDefined ==
  dom.fn = "createEventSource" =>
    /\ (dom.pc # "call" /\ isFalsy(MatchingId(dom.args))) => dom.pc = "threw"
    /\ dom.pc = "returned" =>
         /\ dom.value.type = dom.args.type
         /\ MatchingId(dom.value) = MatchingId(dom.args)
    /\ dom.pc = "destination" =>
         /\ dom.destination.present
         /\ ~isBlank(dom.destination.value)
         /\ dom.destination = MatchingId(dom.args)

\* A group source whose userId was not given: the destination is the groupId.
C20_Witness ==
  /\ dom.fn = "createEventSource"
  /\ dom.pc = "destination"
  /\ dom.args = [type |-> "group", userId |-> Absent,
                 groupId |-> Some(<<"a">>), roomId |-> Absent]
  /\ dom.destination = Some(<<"a">>)

\* ------------------------------------------- claim on the three retry loops

\* Every loop has returned or thrown.
AllEnded == \A i \in Impls : rx.loop[i].pc \in {"returned", "thrown"}

\* C18: the retry loops of the three adapters are the same executor: given
\* the same policy and the same sequence of operation outcomes, all three
\* make the same number of attempts, wait the same delays, none above the
\* maximum delay, and end with the same outcome kind.
C18_SameExecutor ==
  AllEnded =>
    /\ \A i \in Impls, j \in Impls :
         /\ rx.loop[i].calls = rx.loop[j].calls
         /\ rx.loop[i].delays = rx.loop[j].delays
         /\ rx.loop[i].result.kind = rx.loop[j].result.kind
    /\ \A i \in Impls :
         \A k \in DOMAIN rx.loop[i].delays :
           rx.loop[i].delays[k] <= rx.policy.maxDelayMs

\* ------------------------------------------------- claim on the backoff

\* C26: there is no delay before the first attempt; the delay before attempt
\* n (0-indexed, n >= 1) is min(initialDelay * multiplier^(n-1), maxDelay);
\* no delay exceeds maxDelay; no delay is taken after the final failed
\* attempt or after a non-retryable failure.
C26_BackoffDelays ==
  LET p == LinePolicy IN
  /\ \A n \in DOMAIN Line.delays :
       /\ Line.delays[n] =
            Min(p.initialDelayMs * Pow(p.backoffMultiplier, n - 1),
                p.maxDelayMs)
       /\ Line.delays[n] <= p.maxDelayMs
  /\ Line.calls = 0 => Line.delays = <<>>
  /\ Len(Line.delays) <= Line.calls
  /\ Line.pc = "call" => Len(Line.delays) = Line.calls
  /\ Line.pc = "sleep" => Len(Line.delays) = Line.calls - 1
  /\ Line.pc = "thrown" => Len(Line.delays) = Line.calls - 1
  /\ Line.pc = "returned" => Len(Line.delays) = Line.calls - 1

\* Initial delay 100, multiplier 2, three retries of a failing operation.
C26_Witness ==
  /\ LinePolicy = MkPolicy(3, 100, 10000, 2)
  /\ Line.pc = "thrown"
  /\ Line.calls = 4
  /\ Line.delays = <<100, 200, 400>>

\* ------------------------------------------ claims on the split positions

\* The chunks stand one after the other in the text, from its first
\* character on.
Contiguous(ms) ==
  \A i \in DOMAIN ms : ms[i].from = ContentLength(SubSeq(ms, 1, i - 1))

\* The positions, counted from `from`, of the break characters within the
\* MAX_TEXT_LENGTH characters that start at `from`.
BreaksInPrefix(text, from) ==
  {b.pos - from :
     b \in {c \in text.breaks :
              c.pos >= from /\ c.pos < from + MAX_TEXT_LENGTH}}

\* C27: for a text longer than 5000 characters each chunk but the last ends
\* at the last sentence terminator or line break within the 5000-character
\* prefix of the remaining text, that character included, when it is at a
\* position greater than 0, and is otherwise exactly the first 5000
\* characters; every chunk is non-empty; a break-free text of 5001 characters
\* gives chunks of 5000 and 1 characters, a text of 5000 gives one chunk.
C27_SplitAtLastBreak ==
  sp.pc = "done" =>
    LET ms == sp.messages IN
    /\ sp.text.len > MAX_TEXT_LENGTH =>
         \A i \in 1..(Len(ms) - 1) :
           LET from == ContentLength(SubSeq(ms, 1, i - 1))
               found == BreaksInPrefix(sp.text, from)
               behind == {x \in found : x > 0} IN
           /\ ms[i].from = from
           /\ ~ms[i].marker
           /\ behind # {} =>
                /\ ms[i].len - 1 \in behind
                /\ \A x \in found : x <= ms[i].len - 1
           /\ behind = {} => ms[i].len = MAX_TEXT_LENGTH
    /\ \A i \in DOMAIN ms : ms[i].len >= 1
    /\ sp.text = MkText(MAX_TEXT_LENGTH + 1, {}) =>
         ms = <<Chunk(0, MAX_TEXT_LENGTH), Chunk(MAX_TEXT_LENGTH, 1)>>
    /\ sp.text.len = MAX_TEXT_LENGTH => ms = <<Chunk(0, MAX_TEXT_LENGTH)>>

\* A text of 10001 characters with a line break at position 0 and a sentence
\* terminator at 2500: the first chunk ends at 2500, the second is cut at
\* 5000 characters, the third is the rest.
C27_Witness ==
  /\ sp.pc = "done"
  /\ sp.text = MkText(2 * MAX_TEXT_LENGTH + 1,
                      {[pos |-> 0, ch |-> "newline"],
                       [pos |-> 2500, ch |-> "period"]})
  /\ sp.messages = <<Chunk(0, 2501), Chunk(2501, MAX_TEXT_LENGTH),
                     Chunk(7501, 2500)>>

\* C30: no text is lost unless the result is truncated: when the loop has
\* consumed the whole input within 5 chunks the returned chunks, in order,
\* are the input exactly; when the truncation marker is appended the chunks
\* without the marker are a prefix of the input.
C30_NoTextLostUnlessTruncated ==
  sp.pc = "done" =>
    /\ Contiguous(sp.messages)
    /\ sp.consumed = sp.text.len =>
         /\ Marked(sp.messages) = {}
         /\ ContentLength(sp.messages) = sp.text.len
    /\ Marked(sp.messages) # {} =>
         ContentLength(sp.messages) <= sp.text.len

\* --------------------------------------------- claims on the index clear

\* The run got past the start notification.
PastStart(s) == s.trace # <<>> /\ s.trace[1].ok

\* C23: a run that gets past the start notification calls clearIndex exactly
\* once, and that call has returned before the first addDocuments call and
\* before the first document is pulled from the source; a run over zero
\* documents does so too and leaves the index cleared.
C23_ClearOnceBeforeBatches ==
  \A r \in Active :
    LET s == run[r]
        tr == s.trace IN
    /\ Len(Calls(tr, "clearIndex")) <= 1
    /\ (PastStart(s) /\ s.pc # "clear") =>
         /\ Len(Calls(tr, "clearIndex")) = 1
         /\ tr[2].op = "clearIndex"
    /\ (PastStart(s) /\ s.pc = "clear") => ENABLED ClearIndex(r)
    /\ \A i \in At(tr, {"addDocuments", "sourceNext"}) :
         \E j \in 1..(i - 1) : tr[j].op = "clearIndex" /\ tr[j].ok
    /\ (s.pc = "returned" /\ NumDocs(s) = 0) =>
         /\ Len(Calls(tr, "clearIndex")) = 1
         /\ index = <<>>

\* A run over zero documents that has returned: start notification,
\* clearIndex, the end of the source, the no-documents notification.
C23_Witness ==
  \E r \in Active :
    /\ run[r].pc = "returned"
    /\ NumDocs(run[r]) = 0
    /\ Len(run[r].trace) = 4
    /\ run[r].trace[2] = Event("clearIndex", TRUE, 0)
    /\ run[r].result = ZeroResult
    /\ index = <<>>

\* The clearIndex call of the run failed, with a SystemError as
\* LlamaIndexGeminiIndexBuilder.clearIndex throws for every failure.
ClearFailed(s) ==
  \E i \in At(s.trace, {"clearIndex"}) :
    ~s.trace[i].ok /\ s.caught = MkError("SystemError", "clearIndex")

\* C24: after a failure of the index clear step no document is pulled from
\* the source, no addDocuments call is made, exactly one error notification
\* is sent, of kind 'system', and the clear failure is what syncDocuments
\* throws.
C24_ClearFailureIsSystemFailure ==
  \A r \in Active :
    LET s == run[r]
        errs == Calls(s.trace, "notifySyncError") IN
    ClearFailed(s) =>
      /\ At(s.trace, {"addDocuments", "sourceNext"}) = {}
      /\ s.gen.pos = 0
      /\ s.pc \in {"catch", "thrown"}
      /\ s.pc = "thrown" =>
           /\ Len(errs) = 1
           /\ errs[1].arg.type = "system"
           /\ s.thrown = MkError("SystemError", "clearIndex")

\* The documents pulled from the source and not yet handed to addDocuments.
Pending(s) == s.gen.pos - Len(Submitted(s))

\* C28: batches are processed one at a time in arrival order: while an
\* addDocuments call is awaited the run does nothing else, the source is
\* pulled again only after the previous addDocuments call has returned, and
\* the documents pulled but not yet submitted never exceed the batch size.
C28_OneBatchAtATime ==
  \A r \in Active :
    LET s == run[r]
        tr == s.trace IN
    /\ Pending(s) >= 0
    /\ Pending(s) <= s.size
    /\ Submitted(s) = SubSeq(s.gen.source.items, 1, Len(Submitted(s)))
    /\ s.pc = "add" =>
         /\ Pending(s) = Len(s.gen.batch)
         /\ ~ENABLED PullDocument(r)
         /\ ENABLED AddDocuments(r)
    /\ s.pc = "pull" => ~ENABLED AddDocuments(r)
    /\ \A i \in At(tr, {"addDocuments"}) :
         /\ i < Len(tr) /\ tr[i + 1].op = "sourceNext" => tr[i].ok
         /\ tr[i - 1].op = "sourceNext"

\* Five documents in batches of two: the second batch is awaited while the
\* first is in the index and the fifth document is still in the source.
C28_Witness ==
  \E r \in Active :
    /\ run[r].pc = "add"
    /\ run[r].size = 2
    /\ NumDocs(run[r]) = 5
    /\ run[r].gen.batch = <<3, 4>>
    /\ Submitted(run[r]) = <<1, 2>>
    /\ Pending(run[r]) = 2

\* ------------------------------------------------ clearIndex in the adapters

\* indexBuilder.ts 296-307 and part_016 125-153: clearIndex is one try block
\* around the clearing call (clearCollection, TRUNCATE TABLE); whatever it
\* throws is wrapped in SystemError(IndexClearFailed) at once. There is no
\* loop and no delay.
clearIndex(l, o) ==
  IF o.ok THEN Returned(l)
  ELSE [l EXCEPT !.pc = "thrown",
                 !.result = [kind |-> "INDEX_CLEAR_FAILED", cause |-> o]]

\* The adapter is configured with maxRetries and retryDelay (the policy's
\* initialDelayMs); clearIndex is called and its clearing call can throw any
\* of ThrownErrors.
InitClear ==
  /\ run = [r \in Runs |-> Idle]
  /\ index = <<>>
  /\ it = IdleIterator
  /\ emitted = <<>>
  /\ \E p \in Policies :
       rx = [policy |-> p, fn |-> ThrownErrors,
             loop |-> [i \in {"clear"} |-> [LoopOff EXCEPT !.pc = "call"]]]
  /\ sp = <<>>
  /\ dom = <<>>
  /\ qa = <<>>

\* `await this.vectorStore.clearCollection()` / `await client.query(...)`
ClearAttempt ==
  /\ rx.loop["clear"].pc = "call"
  /\ \E o \in {Success} \cup rx.fn :
       rx' = [rx EXCEPT !.loop["clear"] =
                clearIndex([@ EXCEPT !.calls = @ + 1,
                                     !.outcomes = Append(@, o)], o)]
  /\ UNCHANGED <<run, index, it, emitted, sp, dom, qa>>

NextClear == ClearAttempt

SpecClear == InitClear /\ [][NextClear]_vars

\* C25: the index clear call passes through the retry executor: when
\* clearIndex has failed and the failure of its last call was transient (no
\* status code, 429 or 5xx), the clearing call has been made
\* maxRetries + 1 times with a backoff delay between the calls.
C25_ClearRetriedUntilExhausted ==
  LET l == rx.loop["clear"] IN
  (l.pc = "thrown" /\ isRetryableError(l.outcomes[l.calls]))
    => /\ l.calls = rx.policy.maxRetries + 1
       /\ Len(l.delays) = rx.policy.maxRetries

\* ------------------------------------------------------ two concurrent runs

\* routes.ts 123-141: the sync command starts syncDocuments without awaiting
\* it, so a second sync command starts a second run while the first is
\* suspended at one of its awaits. Both runs use the same container: the same
\* index backend and the same config.syncBatchSize. Each run calls
\* documentSource.iterate() for itself and may see a different number of
\* documents.
MaxConcurrentDocs == 1

ConcurrentSources == {MkSource(n, -1, NoError) : n \in 0..MaxConcurrentDocs}

InitTwo ==
  /\ \E s \in [Runs -> ConcurrentSources] :
       run = [r \in Runs |-> Started(s[r], MaxBatchSize)]
  /\ index \in InitialIndexes
  /\ it = IdleIterator
  /\ emitted = <<>>
  /\ rx = <<>>
  /\ sp = <<>>
  /\ dom = <<>>
  /\ qa = <<>>

SpecTwo == InitTwo /\ [][Next]_vars

\* The accumulators of a run hold what its own addDocuments calls were given
\* and reported.
OwnAccumulators(s) ==
  /\ s.successCount = Len(Submitted(s))
  /\ s.totalEntries = s.reported.totalEntries
  /\ \A i \in At(s.trace, {"notifySyncCompleted"}) :
       /\ s.trace[i].arg.syncResult.totalCount = s.successCount
       /\ s.trace[i].arg.buildResult.totalEntries = s.totalEntries

\* C22: with two runs interleaved at their awaits, each run's accumulators
\* hold at every point the documents of its own addDocuments calls and the
\* entries those calls reported, its completion notification carries these
\* counts, and a completed run returns them: the counts of a run are those it
\* has when it runs alone.
C22_CountsOfOwnBatches ==
  \A r \in Runs :
    /\ OwnAccumulators(run[r])
    /\ Completed(run[r]) => CompletedCounts(run[r])

\* Both runs completed over one document each, their clearIndex calls both
\* made before either addDocuments call; the backend reported two entries to
\* the first run and one to the second.
C22_Witness ==
  /\ \A r \in Runs : Completed(run[r]) /\ run[r].result.totalDocuments = 1
  /\ run[1].result.totalEntries = 2
  /\ run[2].result.totalEntries = 1
  /\ index = <<1, 1>>

\* C29: nothing in the orchestrator makes a run wait for another: a run at
\* its clearIndex call or at an addDocuments call can make the call whatever
\* the other run is doing.
C29_WritersNotSerialized ==
  \A r \in Runs :
    /\ run[r].pc = "clear" => ENABLED ClearIndex(r)
    /\ run[r].pc = "add" => ENABLED AddDocuments(r)

\* The first run has completed and reported one document, every call it made
\* returned, and the index is empty: the second run's clearIndex took effect
\* after the first run's addDocuments.
C29_Witness ==
  /\ Completed(run[1])
  /\ AllOk(run[1].trace)
  /\ run[1].result.totalDocuments = 1
  /\ run[2].pc = "pull"
  /\ run[2].trace[Len(run[2].trace)].op = "clearIndex"
  /\ index = <<>>

\* ----------------------------------------------------------- answerQuestion

\* splitLongMessage.ts 18-64: the call run to its return.
RECURSIVE SplitRun(_)
SplitRun(s) ==
  IF s.pc = "entry" THEN SplitRun(SplitEntered(s))
  ELSE IF s.pc = "loop" THEN SplitRun(SplitBody(s))
  ELSE IF s.pc = "tail" THEN SplitRun(SplitTail(s))
  ELSE s

splitLongMessage(text) == SplitRun(SplitCall(text)).messages

\* part_002 11-16: the two fixed messages, 32 and 37 characters long, each
\* with a full stop inside and at its end.
qaMessages ==
  [noRelevantDocuments |->
     MkText(32, {[pos |-> 17, ch |-> "period"], [pos |-> 31, ch |-> "period"]}),
   indexNotBuilt |->
     MkText(37, {[pos |-> 16, ch |-> "period"], [pos |-> 36, ch |-> "period"]})]

\* A string handed to createAnswerContent: its text and whether it is made
\* of whitespace only.
MkContent(text, blank) == [text |-> text, blank |-> blank]

\* The answers the query engine may generate: texts without break characters
\* of every length of TextLengths; the empty text is blank.
AnswerContents ==
  {MkContent(t, b) :
     t \in {u \in ValidTexts : u.breaks = {}}, b \in BOOLEAN}
    \ {MkContent(MkText(0, {}), FALSE)}

\* QueryResult: the generated answer and the number of sources.
QueryResults == [answer : AnswerContents, sources : 0..MaxResults]

\* part_011 50-58
createAnswerContent(value) ==
  IF value.text.len = 0 \/ value.blank THEN Throw("EMPTY_CONTENT")
  ELSE Return(value)

MkAnswer(kind, content, sources) ==
  [kind |-> kind, content |-> content, sources |-> sources]

\* vectorIndex/entity.ts 128-141
createIndexNotBuiltAnswer ==
  LET content == createAnswerContent(MkContent(qaMessages.indexNotBuilt, FALSE))
  IN IF content.ok THEN Return(MkAnswer("indexNotBuilt", content.value, 0))
     ELSE content

\* vectorIndex/entity.ts 110-123
createNoRelevantDocumentsAnswer ==
  LET content ==
        createAnswerContent(MkContent(qaMessages.noRelevantDocuments, FALSE))
  IN IF content.ok
     THEN Return(MkAnswer("noRelevantDocuments", content.value, 0))
     ELSE content

\* vectorIndex/entity.ts 84-105
createAnswerFromQueryResult(queryResult) ==
  LET content == createAnswerContent(queryResult.answer) IN
  IF content.ok
  THEN Return(MkAnswer("generated", content.value, queryResult.sources))
  ELSE content

\* message/valueObject.ts 215-232, for a chunk of splitLongMessage;
\* `blank` is whether the chunk is made of whitespace only.
createTextMessageContent(chunk, blank) ==
  IF ChunkLength(chunk) = 0 \/ blank THEN Throw("EMPTY_MESSAGE_CONTENT")
  ELSE IF ChunkLength(chunk) > MAX_TEXT_LENGTH THEN Throw("MESSAGE_TOO_LONG")
  ELSE Return(chunk)

\* message/entity.ts 10-24
createReplyMessage(messages) ==
  IF Len(messages) = 0 THEN Throw("EMPTY_MESSAGES") ELSE Return(messages)

\* answerQuestion.ts 113-116: the reply message sendAnswerReply builds for an
\* answer; `blankAt` is the position of a chunk made of whitespace only, 0
\* if there is none.
BuildReply(answer, blankAt) ==
  LET messageChunks == splitLongMessage(answer.content.text)
      messages == [i \in DOMAIN messageChunks |->
                     createTextMessageContent(messageChunks[i], i = blankAt)]
      failed == {i \in DOMAIN messages : ~messages[i].ok} IN
  IF failed # {}
  THEN messages[CHOOSE i \in failed : \A j \in failed : i <= j]
  ELSE createReplyMessage([i \in DOMAIN messages |-> messages[i].value])

\* A chunk can be whitespace only when the text is split in several chunks;
\* a text returned as one chunk is the content itself, which is not blank.
BlankChunkPositions(answer) ==
  LET n == Len(splitLongMessage(answer.content.text)) IN
  IF n >= 2 THEN 0..n ELSE {0}

NoAnswer == MkAnswer("none", MkContent(MkText(0, {}), TRUE), 0)

\* answerQuestion(container, input) at its first statement.
AnswerCall(questionText) ==
  [pc |-> "start", questionText |-> questionText, answer |-> NoAnswer,
   result |-> NoAnswer, thrown |-> "", trace |-> <<>>]

QaLog(q, op, ok, arg) == [q EXCEPT !.trace = Append(@, Event(op, ok, arg))]

QaThrow(q, code) == [q EXCEPT !.pc = "thrown", !.thrown = code]

\* An answer was created: sendAnswerReply is next, unless the factory threw.
Answered(q, a) ==
  IF a.ok THEN [q EXCEPT !.pc = "reply", !.answer = a.value]
  ELSE QaThrow(q, a.value)

\* Lines 53-67 and 70: the test of indexStatus.isAvailable.
\* Faulty variant: the query is made whatever the status says.
AfterStatusAlwaysQuery(q, isAvailable) == [q EXCEPT !.pc = "query"]
AfterStatus(q, isAvailable) ==
  IF ~isAvailable THEN Answered(q, createIndexNotBuiltAnswer)
  ELSE [q EXCEPT !.pc = "query"]

\* Lines 72-94: the test of queryResult.sources.length.
AfterQuery(q, queryResult) ==
  IF queryResult.sources = 0 THEN Answered(q, createNoRelevantDocumentsAnswer)
  ELSE Answered(q, createAnswerFromQueryResult(queryResult))

InitAnswer ==
  /\ run = [r \in Runs |-> Idle]
  /\ index = <<>>
  /\ it = IdleIterator
  /\ emitted = <<>>
  /\ rx = <<>>
  /\ sp = <<>>
  /\ dom = <<>>
  /\ \E questionText \in Strings : qa = AnswerCall(questionText)

\* Lines 47-51: createQuestion (part_011 38-46) throws for a blank question;
\* otherwise getStatus is awaited and reports the index available or not, or
\* throws.
GetStatus ==
  /\ qa.pc = "start"
  /\ IF isBlank(qa.questionText)
     THEN qa' = QaThrow(qa, "EMPTY_QUESTION")
     ELSE \/ qa' = QaThrow(QaLog(qa, "getStatus", FALSE, 0), "getStatus")
          \/ \E isAvailable \in BOOLEAN :
               qa' = AfterStatus(QaLog(qa, "getStatus", TRUE,
                                       [isAvailable |-> isAvailable]),
                                 isAvailable)
  /\ UNCHANGED <<run, index, it, emitted, rx, sp, dom>>

\* Line 70: await container.queryEngine.query(questionText, topK)
Query ==
  /\ qa.pc = "query"
  /\ \/ qa' = QaThrow(QaLog(qa, "query", FALSE, 0), "query")
     \/ \E queryResult \in QueryResults :
          qa' = AfterQuery(QaLog(qa, "query", TRUE, queryResult), queryResult)
  /\ UNCHANGED <<run, index, it, emitted, rx, sp, dom>>

\* Lines 62, 81, 97 with 107-118: sendAnswerReply builds the reply message
\* and awaits messageSender.reply; when it returns answerQuestion returns the
\* answer.
Reply ==
  /\ qa.pc = "reply"
  /\ \E blankAt \in BlankChunkPositions(qa.answer), ok \in BOOLEAN :
       LET replyMessage == BuildReply(qa.answer, blankAt) IN
       IF ~replyMessage.ok
       THEN ok /\ qa' = QaThrow(qa, replyMessage.value)
       ELSE LET q == QaLog(qa, "reply", ok,
                           [kind |-> qa.answer.kind,
                            messages |-> replyMessage.value]) IN
            qa' = IF ok THEN [q EXCEPT !.pc = "returned", !.result = qa.answer]
                  ELSE QaThrow(q, "reply")
  /\ UNCHANGED <<run, index, it, emitted, rx, sp, dom>>

NextAnswer == GetStatus \/ Query \/ Reply

SpecAnswer == InitAnswer /\ [][NextAnswer]_vars

\* The index status answerQuestion was given said the index is not available.
Unavailable(q) ==
  \E i \in At(q.trace, {"getStatus"}) :
    q.trace[i].ok /\ ~q.trace[i].arg.isAvailable

\* The query returned a result without sources.
NoSources(q) ==
  \E i \in At(q.trace, {"query"}) :
    q.trace[i].ok /\ q.trace[i].arg.sources = 0

Replies(q) == Calls(q.trace, "reply")

====
